---- MODULE Spec2Model ----
(***************************************************************************)
(* esb-bridge: the framed packet transport over the serial link            *)
(* (internal/usbprotocol), the ESB gateway and envelope router             *)
(* (pkg/esbbridge) and the streaming Listen handler of the server          *)
(* (cmd/server), as a state machine of their goroutines.                   *)
(*                                                                         *)
(* Goroutines: the callers (one per client call), serialReaderThread,      *)
(* receive (the dispatcher), rxCallbackThread (the router) and one Listen  *)
(* handler per subscribed client.  An unbuffered channel is a rendezvous:  *)
(* the step that takes a value needs the sender parked at its send.        *)
(*                                                                         *)
(* One connection lifecycle is modelled (nil -> open -> closed): Open is   *)
(* attempted only while no port was ever opened.                           *)
(***************************************************************************)
EXTENDS Integers, Sequences, FiniteSets, TLC

\* ------------------------------------------------------------------ bounds
MaxCalls == 2
MaxFrames == 1
MaxEnvelopes == 3
MaxAdds == 2
MaxRegs == 2
MaxReads == 2

Callers == {1, 2}
Clients == {1, 2}

\* ------------------------------------------------------- program constants
packetSize == 64
MaxPayloadLen == 58
sync == 105
idxPayload == 4
CrcInit == 65535
MaxPayloadSize == 32
AddressSize == 5
UsbCmdVersion == 16
UsbCmdTransfer == 48
CmdTest == 97
CmdIrq == 128
CmdRx == 129
CmdWildcard == 255
MinEnvelopeLen == 6
RxChannelCap == 5
SinkCap == 1
ListenCycles == 3

\* --------------------------------------------------------------- data sets
Zeros(n) == [i \in 1..n |-> 0]

NilPayload == [isNil |-> TRUE, bytes |-> <<>>]

Bytes(s) == [isNil |-> FALSE, bytes |-> s]

\* application payloads handed to the gateway's Transfer
GwPayloads == {NilPayload, Bytes(<<>>), Bytes(<<16>>), Bytes(Zeros(32)), Bytes(Zeros(33))}

\* payloads handed to usbprotocol.Transfer directly
UsbPayloads == {NilPayload, Bytes(<<7>>)}

\* the same, at the limits of the frame's payload field
EdgePayloads == {NilPayload, Bytes(<<>>), Bytes(Zeros(MaxPayloadLen)),
                 Bytes(Zeros(MaxPayloadLen + 1))}

Addr1 == <<1, 2, 3, 4, 5>>
Addr2 == <<1, 2, 3, 4, 6>>
AddrZero == Zeros(AddressSize)
TargetAddr == <<111, 111, 111, 111, 1>>

\* what the device puts in a reply: status and payload (a version triple, a short one)
Replies == {[err |-> 0, payload |-> <<1, 2, 3>>], [err |-> 0, payload |-> <<9>>],
            [err |-> 1, payload |-> <<1, 2, 3>>]}

\* commands of frames nobody asked for
StrayCmds == {UsbCmdVersion}

\* the commands callbacks are registered for with RegisterCallback
RegCmds == {CmdIrq, UsbCmdVersion}

\* async receive notifications: well-formed envelopes and one malformed
Envelopes == {Addr1 \o <<5>>, Addr1 \o <<6, 42>>, Addr2 \o <<5>>, <<1, 2>>}

\* the filters a Listen client may ask for (address, command)
Filters == {[sourceAddr |-> AddrZero, cmd |-> 5], [sourceAddr |-> Addr1, cmd |-> CmdWildcard],
            [sourceAddr |-> AddrZero, cmd |-> CmdWildcard]}

\* ------------------------------------------------------------ wire format
\* crc16.Checksum with the CRC16_CCITT_FALSE table: polynomial 0x1021, initial value
\* 0xFFFF, bits taken most significant first, nothing reflected, no final xor.
\* One step of the shift register: the data bit d enters, and the polynomial is
\* folded in when the bit that leaves differs from it.
CrcBit(crc, d) ==
    LET y == (crc * 2) % 65536
    IN  IF (crc >= 32768) = (d = 1) THEN y
        ELSE y + 1 + (IF (y \div 32) % 2 = 1 THEN -32 ELSE 32)
                   + (IF (y \div 4096) % 2 = 1 THEN -4096 ELSE 4096)

CrcByte(crc, b) ==
    CrcBit(CrcBit(CrcBit(CrcBit(CrcBit(CrcBit(CrcBit(CrcBit(crc,
        (b \div 128) % 2), (b \div 64) % 2), (b \div 32) % 2), (b \div 16) % 2),
        (b \div 8) % 2), (b \div 4) % 2), (b \div 2) % 2), b % 2)

RECURSIVE CrcUpdate(_, _, _)
CrcUpdate(crc, data, i) ==
    IF crc < 0 \/ i > Len(data) THEN crc
    ELSE CrcUpdate(CrcByte(crc, data[i]), data, i + 1)

Checksum(data) == CrcUpdate(CrcInit, data, 1)

\* a frame as the device puts it on the wire: first byte, command, status, payload
\* length, payload, zero padding, checksum of the 62 bytes low byte first
Frame(first, cmd, err, payload) ==
    LET head == <<first, cmd, err, Len(payload)>> \o payload
                    \o Zeros(MaxPayloadLen - Len(payload))
        crc == Checksum(head)
    IN  head \o <<crc % 256, crc \div 256>>

\* TxBuf with the checksum stored high byte first
TxBufBigEndian(cmd, payload) ==
    LET f == Frame(sync, cmd, 0, payload.bytes)
    IN  [f EXCEPT ![packetSize - 1] = f[packetSize], ![packetSize] = f[packetSize - 1]]

\* usbprotocol.Transfer's txBuf: sync, the command, status 0, the length (0 for a nil
\* payload), the payload copied over zeros, the checksum low byte first
TxBuf(cmd, payload) == Frame(sync, cmd, 0, IF payload.isNil THEN <<>> ELSE payload.bytes)

\* a frame as a device may send it: 58 bytes in the payload field, a valid checksum,
\* and a length byte of the device's choosing
LengthFrame(cmd, len, data) ==
    LET head == <<sync, cmd, 0, len>> \o data
        crc == Checksum(head)
    IN  head \o <<crc % 256, crc \div 256>>

\* the length bytes of such frames: the largest a payload field holds, the two that
\* end the slice inside the checksum, the first beyond the buffer, and the largest,
\* whose sum with idxPayload wraps
LengthBytes == {MaxPayloadLen, MaxPayloadLen + 1, packetSize - idxPayload,
                packetSize - idxPayload + 1, 255}

\* buf with byte i replaced by another value
Corrupt(buf, i) == [buf EXCEPT ![i] = (@ + 1) % 256]

\* a read of the port: the bytes in rxBuf, bytesRead and whether err is set
Read(buf, n, err) == [n |-> n, err |-> err, buf |-> buf]

\* what port.Read may return: two valid frames, and reads that are cut short, that
\* fail, that start with another byte than sync, and that differ from a valid frame
\* in its command, in its payload, in its padding and in its checksum; and valid
\* frames with a full payload field and each of LengthBytes
RawReads ==
    LET version == Frame(sync, UsbCmdVersion, 0, <<1, 2, 3>>)
        notify == Frame(sync, CmdRx, 0, Addr1 \o <<5>>)
    IN  {Read(version, packetSize, FALSE), Read(notify, packetSize, FALSE),
         Read(SubSeq(version, 1, 10) \o Zeros(packetSize - 10), 10, FALSE),
         Read(Zeros(packetSize), 0, TRUE),
         Read(Frame(sync - 1, UsbCmdVersion, 0, <<1, 2, 3>>), packetSize, FALSE),
         Read(Corrupt(version, 2), packetSize, FALSE),
         Read(Corrupt(version, 5), packetSize, FALSE),
         Read(Corrupt(version, 40), packetSize, FALSE),
         Read(Corrupt(version, 64), packetSize, FALSE)}
        \cup {Read(LengthFrame(CmdTest, n, [i \in 1..MaxPayloadLen |-> i]), packetSize, FALSE) :
                n \in LengthBytes}

\* the commands and payloads of frames sent back as they were written: no payload, an
\* empty one, bytes that are zero like the padding, the largest byte, a full field
LoopCmds == {0, UsbCmdVersion, CmdRx, 255}

LoopPayloads == {NilPayload, Bytes(<<>>), Bytes(<<7>>), Bytes(<<0>>), Bytes(<<255, 0, 0>>),
                 Bytes(Zeros(MaxPayloadLen)), Bytes([i \in 1..MaxPayloadLen |-> i])}

Loopbacks == {Read(TxBuf(cmd, p), packetSize, FALSE) : cmd \in LoopCmds, p \in LoopPayloads}

\* the work the environment brings: calls, stray frames, notifications, and whether
\* clients subscribe
\* calls: engine and gateway calls; frames: frames nobody asked for, with a command of
\* strays; envs: receive notifications; listens: whether clients call Listen; adds:
\* direct AddListener calls; regs: RegisterCallback calls; reads: raw reads of the
\* link, each returning one of wire; payloads: what usbprotocol.Transfer is called
\* with directly; stamps: whether the history of when each frame was received is kept
NoWork == [calls |-> 0, frames |-> 0, envs |-> 0, listens |-> FALSE, adds |-> 0, regs |-> 0,
           reads |-> 0, wire |-> {}, payloads |-> UsbPayloads, strays |-> StrayCmds,
           stamps |-> FALSE]

CallsWork == [NoWork EXCEPT !.calls = MaxCalls, !.frames = MaxFrames]

\* one call per caller, with stray frames
TimeoutWork == [NoWork EXCEPT !.calls = Cardinality(Callers), !.frames = MaxFrames]

\* one call per caller, no stray frames
HonestWork == [NoWork EXCEPT !.calls = Cardinality(Callers)]

\* calls to a device that only answers requests, each frame stamped with the number
\* of requests written when the read loop received it
StaleWork == [NoWork EXCEPT !.calls = MaxCalls, !.stamps = TRUE]

ListenWork == [NoWork EXCEPT !.envs = MaxEnvelopes, !.listens = TRUE]

\* engine calls with payloads at the limits
SizeWork == [NoWork EXCEPT !.calls = MaxCalls, !.payloads = EdgePayloads]

\* RegisterCallback calls, frames with the commands registered, a notification
\* and a call whose reply a callback may take
DispatchWork == [NoWork EXCEPT !.calls = 1, !.frames = MaxFrames, !.envs = 1,
                               !.regs = MaxRegs, !.strays = RegCmds]

\* raw reads of the link, good and bad, while a call waits for its answer
FramesWork == [NoWork EXCEPT !.calls = 1, !.reads = MaxReads, !.wire = RawReads]

\* a link that returns one of the frames Transfer builds, while a call waits
LoopWork == [NoWork EXCEPT !.calls = 1, !.reads = 1, !.wire = Loopbacks]

\* direct AddListener calls, with and without a channel, and notifications
SubscribeWork == [NoWork EXCEPT !.adds = MaxAdds, !.envs = 2]

Workloads == {CallsWork, ListenWork}

\* a frame as the read loop hands it on; req and at are history: the request a
\* device reply answers (0 for a frame the device sends unasked) and the number of
\* request frames written when the read loop received it
NoMsg == [cmd |-> 0, err |-> 0, payload |-> <<>>, req |-> 0, at |-> 0]

NoEsb == [address |-> <<>>, cmd |-> 0, payload |-> <<>>]

NoAns == [status |-> 0, payload |-> <<>>, err |-> "none"]

\* a gateway result: the value, the error, and the device status a device error carries
NoRes == [val |-> <<>>, err |-> "none", code |-> 0]

IdleCall == [op |-> "none", pc |-> "idle", cmd |-> 0, arg |-> NilPayload, req |-> 0,
             st |-> "nil", prev |-> FALSE]

NoRet == [op |-> "none", cmd |-> 0, arg |-> NilPayload, req |-> 0, st |-> "nil",
          prev |-> FALSE, got |-> NoMsg, ans |-> NoAns, res |-> NoRes]

IdleListen == [pc |-> "idle", idx |-> 0, i |-> 0, err |-> "none"]

NoFan == [msg |-> NoEsb, n |-> 0, got |-> {}, done |-> FALSE]

NoReg == [sourceAddr |-> AddrZero, cmd |-> 0, isNil |-> FALSE, err |-> "none"]

NoRead == [n |-> 0, err |-> FALSE, buf |-> <<>>]

\* ------------------------------------------------------------------- state
VARIABLES
    port,        \* usbprotocol.port: "nil", "open" or "closed"
    connected,   \* esbbridge.connected
    nWritten,    \* how many request frames were written to the link
    unanswered,  \* the written requests the device has not answered (number, command)
    left,        \* the work the environment still brings
    rdpc, rdmsg, \* serialReaderThread: "off", "read", "send" and the message it sends
    dpc, dmsg,   \* receive: "off", "select", "callback", "sendAns" and its message
    callbacks,   \* receive's callbacks list (the command identifiers)
    rxChan,      \* the router's buffered channel
    call,        \* per caller: the call in progress
    ret,         \* the call that returned last: what was asked, what came back
    listeners,   \* esbbridge.listeners (the filters)
    sinks,       \* the listeners' channels, by listener index
    rtpc, rtmsg, \* rxCallbackThread: "off", "recv", "send", "dead" and its envelope
    rtidx, rtn,  \* its place in the range over listeners and the length it ranges over
    fan,         \* the fan-out of the envelope in hand: which listeners received it
    lst,         \* per client: its Listen handler
    reg,         \* the AddListener call that returned last: its arguments and its error
    hits,        \* per callback of receive: how often it was invoked
    rxBuf        \* serialReaderThread's rxBuf, bytesRead and err after the last read

vars == <<port, connected, nWritten, unanswered, left, rdpc, rdmsg, dpc, dmsg, callbacks,
          rxChan, call, ret, listeners, sinks, rtpc, rtmsg, rtidx, rtn, fan, lst, reg, hits,
          rxBuf>>

link == <<port, connected, callbacks>>

reader == <<rdpc, rdmsg>>

dispatcher == <<dpc, dmsg>>

router == <<listeners, sinks, rtpc, rtmsg, rtidx, rtn, fan, lst>>

\* the state after construction, with the work w ahead
InitWith(w) ==
    /\ port = "nil"
    /\ connected = FALSE
    /\ nWritten = 0
    /\ unanswered = {}
    /\ left = w
    /\ rdpc = "off"
    /\ rdmsg = NoMsg
    /\ dpc = "off"
    /\ dmsg = NoMsg
    /\ callbacks = <<>>
    /\ rxChan = <<>>
    /\ call = [c \in Callers |-> IdleCall]
    /\ ret = NoRet
    /\ listeners = <<>>
    /\ sinks = <<>>
    /\ rtpc = "off"
    /\ rtmsg = NoEsb
    /\ rtidx = 0
    /\ rtn = 0
    /\ fan = NoFan
    /\ lst = [l \in Clients |-> IdleListen]
    /\ reg = NoReg
    /\ hits = <<>>
    /\ rxBuf = NoRead

Init == \E w \in Workloads : InitWith(w)

\* ------------------------------------------------------------ usbprotocol
\* an unrecovered runtime panic in a goroutine ends the whole process
Crashed == rdpc = "panic" \/ rtpc = "panic"

\* callers parked in Transfer's select: the pending transactions
Pending == {c \in Callers : call[c].pc = "wait"}

\* outcome of port.Write on the port as it is (a port that is not open takes nothing)
WriteOutcomes == IF port = "open" THEN {"ok", "short", "fail"} ELSE {"fail"}

\* UsbTransferEarly without the size check
UsbTransferEarlyNoSize(payload, w) ==
    IF w = "fail" THEN "WriteError"
    ELSE IF w = "short" THEN "ErrSerial"
    ELSE "none"

\* usbprotocol.Transfer before its select: the size check and the outcome of the
\* write; "none" when the frame went out whole
UsbTransferEarly(payload, w) ==
    IF Len(payload.bytes) > MaxPayloadLen THEN "ErrSize"
    ELSE IF w = "fail" THEN "WriteError"
    ELSE IF w = "short" THEN "ErrSerial"
    ELSE "none"

\* UsbAnswer without the comparison of the answer's command with the request's
UsbAnswerUnchecked(cmd, answer) ==
    [status |-> answer.err, payload |-> answer.payload, err |-> "nil"]

\* what Transfer returns for the answer it took from ansChannel
UsbAnswer(cmd, answer) ==
    IF answer.cmd # cmd
    THEN [NoAns EXCEPT !.err = "ErrCmdMismatch"]
    ELSE [status |-> answer.err, payload |-> answer.payload, err |-> "nil"]

\* --------------------------------------------------------------- esbbridge
\* TransferResult without the test of the status byte
TransferResultStatusIgnored(ans) ==
    IF ans.err # "nil" THEN [NoRes EXCEPT !.err = ans.err]
    ELSE [NoRes EXCEPT !.val = ans.payload, !.err = "nil"]

\* what the gateway's Transfer makes of the engine's return values
TransferResult(ans) ==
    IF ans.status # 0 THEN [NoRes EXCEPT !.err = "DeviceError", !.code = ans.status]
    ELSE IF ans.err # "nil" THEN [NoRes EXCEPT !.err = ans.err]
    ELSE [NoRes EXCEPT !.val = ans.payload, !.err = "nil"]

\* what GetFwVersion makes of them: the first three payload bytes are indexed
GetFwVersionResult(ans) ==
    IF ans.status # 0 THEN [NoRes EXCEPT !.err = "DeviceError", !.code = ans.status]
    ELSE IF ans.err # "nil" THEN [NoRes EXCEPT !.err = ans.err]
    ELSE IF Len(ans.payload) < 3 THEN [NoRes EXCEPT !.err = "Panic"]
    ELSE [NoRes EXCEPT !.val = SubSeq(ans.payload, 1, 3), !.err = "nil"]

\* the caller's result, by the operation that called the engine
Result(op, ans) ==
    IF op = "Transfer" THEN TransferResult(ans)
    ELSE IF op = "GetFwVersion" THEN GetFwVersionResult(ans)
    ELSE [val |-> ans.payload, err |-> ans.err, code |-> ans.status]

\* the record of a call as it returns
Returned(c0, got, ans, res) ==
    [op |-> c0.op, cmd |-> c0.cmd, arg |-> c0.arg, req |-> c0.req, st |-> c0.st,
     prev |-> c0.prev, got |-> got, ans |-> ans, res |-> res]

\* a call that returns before the engine is reached
Refused(c, op, arg, e) ==
    /\ ret' = Returned([IdleCall EXCEPT !.op = op, !.arg = arg, !.st = port,
                                        !.prev = ret.ans.err = "ErrCmdMismatch"],
                       NoMsg, NoAns, [NoRes EXCEPT !.err = e])
    /\ UNCHANGED <<nWritten, unanswered, call>>

\* usbprotocol.Transfer(cmd, payload) on behalf of operation op, up to its select
UsbTransferStart(c, op, arg, cmd, payload, w) ==
    LET e == UsbTransferEarly(payload, w)
        base == [IdleCall EXCEPT !.op = op, !.cmd = cmd, !.arg = arg, !.st = port,
                                 !.prev = ret.ans.err = "ErrCmdMismatch"]
        ans == [NoAns EXCEPT !.err = e]
    IN  IF e # "none"
        THEN /\ ret' = Returned(base, NoMsg, ans, Result(op, ans))
             /\ UNCHANGED <<nWritten, unanswered, call>>
        ELSE /\ nWritten' = nWritten + 1
             /\ unanswered' = unanswered \cup {[req |-> nWritten + 1, cmd |-> cmd]}
             /\ call' = [call EXCEPT ![c] = [base EXCEPT !.pc = "wait",
                            !.req = nWritten + 1]]
             /\ UNCHANGED ret

\* idle callers are interchangeable: the next call is made by the first of them
CanCall(c) ==
    /\ call[c].pc = "idle"
    /\ left.calls > 0
    /\ \A d \in Callers : d < c => call[d].pc # "idle"

\* esbbridge.Open: usbprotocol.Open (port, channels, the two goroutines), connected,
\* the CmdRx listener and the router goroutine; or the port does not open
Open ==
    /\ ~Crashed
    /\ port = "nil"
    /\ \E ok \in BOOLEAN :
        IF ok
        THEN /\ port' = "open"
             /\ connected' = TRUE
             /\ rdpc' = "read"
             /\ dpc' = "select"
             /\ callbacks' = Append(callbacks, CmdRx)
             /\ hits' = Append(hits, 0)
             /\ rtpc' = "recv"
        ELSE UNCHANGED <<port, connected, rdpc, dpc, callbacks, hits, rtpc>>
    /\ UNCHANGED <<nWritten, unanswered, left, rdmsg, dmsg, rxChan, call, ret, listeners, sinks,
                   rtmsg, rtidx, rtn, fan, lst>>
    /\ UNCHANGED <<reg, rxBuf>>

\* esbbridge.Close -> usbprotocol.Close: the port is closed if there is one, and
\* nothing else is touched; closing a closed port fails inside port.Close, unseen
Close ==
    /\ ~Crashed
    /\ port' = IF port = "nil" THEN "nil" ELSE "closed"
    /\ UNCHANGED <<connected, nWritten, unanswered, left, rdpc, rdmsg, dpc, dmsg, callbacks,
                   rxChan, call, ret, listeners, sinks, rtpc, rtmsg, rtidx, rtn, fan, lst>>
    /\ UNCHANGED <<reg, hits, rxBuf>>

\* GetFwVersion without the test of connected
GetFwVersionUnchecked(c) ==
    /\ ~Crashed
    /\ CanCall(c)
    /\ left' = [left EXCEPT !.calls = @ - 1]
    /\ \E w \in WriteOutcomes :
            UsbTransferStart(c, "GetFwVersion", NilPayload, UsbCmdVersion, NilPayload, w)
    /\ UNCHANGED <<link, reader, dispatcher, rxChan, router>>
    /\ UNCHANGED <<reg, hits, rxBuf>>

\* esbbridge.GetFwVersion, up to the engine's select
GetFwVersion(c) ==
    /\ ~Crashed
    /\ CanCall(c)
    /\ left' = [left EXCEPT !.calls = @ - 1]
    /\ IF ~connected
       THEN Refused(c, "GetFwVersion", NilPayload, "NotConnected")
       ELSE \E w \in WriteOutcomes :
                UsbTransferStart(c, "GetFwVersion", NilPayload, UsbCmdVersion, NilPayload, w)
    /\ UNCHANGED <<link, reader, dispatcher, rxChan, router>>
    /\ UNCHANGED <<reg, hits, rxBuf>>

\* Transfer without the lower bound on the payload length
TransferNoMinimum(c) ==
    /\ ~Crashed
    /\ CanCall(c)
    /\ left' = [left EXCEPT !.calls = @ - 1]
    /\ \E p \in GwPayloads :
        IF ~connected THEN Refused(c, "Transfer", p, "NotConnected")
        ELSE IF p.isNil THEN Refused(c, "Transfer", p, "PayloadEmpty")
        ELSE IF Len(p.bytes) > MaxPayloadSize THEN Refused(c, "Transfer", p, "PayloadTooLong")
        ELSE \E w \in WriteOutcomes :
                UsbTransferStart(c, "Transfer", p, UsbCmdTransfer,
                                 Bytes(TargetAddr \o p.bytes), w)
    /\ UNCHANGED <<link, reader, dispatcher, rxChan, router>>
    /\ UNCHANGED <<reg, hits, rxBuf>>

\* esbbridge.Transfer, up to the engine's select
Transfer(c) ==
    /\ ~Crashed
    /\ CanCall(c)
    /\ left' = [left EXCEPT !.calls = @ - 1]
    /\ \E p \in GwPayloads :
        IF ~connected THEN Refused(c, "Transfer", p, "NotConnected")
        ELSE IF p.isNil THEN Refused(c, "Transfer", p, "PayloadEmpty")
        ELSE IF Len(p.bytes) > MaxPayloadSize THEN Refused(c, "Transfer", p, "PayloadTooLong")
        ELSE IF Len(p.bytes) < 1 THEN Refused(c, "Transfer", p, "PayloadTooShort")
        ELSE \E w \in WriteOutcomes :
                UsbTransferStart(c, "Transfer", p, UsbCmdTransfer,
                                 Bytes(TargetAddr \o p.bytes), w)
    /\ UNCHANGED <<link, reader, dispatcher, rxChan, router>>
    /\ UNCHANGED <<reg, hits, rxBuf>>

\* usbprotocol.Transfer called directly, on a port that was opened
UsbTransfer(c) ==
    /\ ~Crashed
    /\ CanCall(c)
    /\ port # "nil"
    /\ left' = [left EXCEPT !.calls = @ - 1]
    /\ \E p \in left.payloads, w \in WriteOutcomes :
            UsbTransferStart(c, "UsbTransfer", p, CmdTest, p, w)
    /\ UNCHANGED <<link, reader, dispatcher, rxChan, router>>
    /\ UNCHANGED <<reg, hits, rxBuf>>

\* Transfer's select, case answer := <-ansChannel: the rendezvous with receive.
\* Nothing orders a caller's write and its arrival at the select against another
\* caller's, so the answer may go to any caller that has written its request.
AnswerRecv(c) ==
    /\ ~Crashed
    /\ call[c].pc = "wait"
    /\ dpc = "sendAns"
    /\ LET ans == UsbAnswer(call[c].cmd, dmsg)
       IN  ret' = Returned(call[c], dmsg, ans, Result(call[c].op, ans))
    /\ call' = [call EXCEPT ![c] = IdleCall]
    /\ dpc' = "select"
    /\ dmsg' = NoMsg
    /\ UNCHANGED <<link, nWritten, unanswered, left, reader, rxChan, router>>
    /\ UNCHANGED <<reg, hits, rxBuf>>

\* Timeout that reports the error and leaves the caller parked in the select
TimeoutKeepsPending(c) ==
    /\ ~Crashed
    /\ call[c].pc = "wait"
    /\ LET ans == [NoAns EXCEPT !.err = "ErrTimeout"]
       IN  ret' = Returned(call[c], NoMsg, ans, Result(call[c].op, ans))
    /\ UNCHANGED <<link, nWritten, unanswered, left, reader, dispatcher, rxChan, call, router>>
    /\ UNCHANGED <<reg, hits, rxBuf>>

\* Transfer's select, case <-time.After(TimeoutMillis)
Timeout(c) ==
    /\ ~Crashed
    /\ call[c].pc = "wait"
    /\ LET ans == [NoAns EXCEPT !.err = "ErrTimeout"]
       IN  ret' = Returned(call[c], NoMsg, ans, Result(call[c].op, ans))
    /\ call' = [call EXCEPT ![c] = IdleCall]
    /\ UNCHANGED <<link, nWritten, unanswered, left, reader, dispatcher, rxChan, router>>
    /\ UNCHANGED <<reg, hits, rxBuf>>

\* the frames the device may send now: the reply to a request not yet answered, a
\* frame nobody asked for, an asynchronous receive notification
DeviceFrames ==
    {[cmd |-> u.cmd, err |-> a.err, payload |-> a.payload, req |-> u.req, at |-> 0] :
        u \in unanswered, a \in Replies}
    \cup (IF left.frames > 0
          THEN {[cmd |-> k, err |-> 0, payload |-> <<1, 2, 3>>, req |-> 0,
                 at |-> 0] : k \in left.strays}
          ELSE {})
    \cup (IF left.envs > 0
          THEN {[cmd |-> CmdRx, err |-> 0, payload |-> e, req |-> 0, at |-> 0] : e \in Envelopes}
          ELSE {})

\* the history a received frame carries: the number of request frames written so far
ReadAt == IF left.stamps THEN nWritten ELSE 0

\* serialReaderThread: one read that yields a valid frame
ReaderRead ==
    /\ ~Crashed
    /\ rdpc = "read"
    /\ port = "open"
    /\ \E f \in DeviceFrames :
        /\ rdmsg' = [f EXCEPT !.at = ReadAt]
        /\ unanswered' = {u \in unanswered : u.req # f.req}
        /\ left' = IF f.req # 0 THEN left
                   ELSE IF f.cmd = CmdRx THEN [left EXCEPT !.envs = @ - 1]
                   ELSE [left EXCEPT !.frames = @ - 1]
    /\ rdpc' = "send"
    /\ UNCHANGED <<link, nWritten, dispatcher, rxChan, call, ret, router>>
    /\ UNCHANGED <<reg, hits, rxBuf>>

\* Matching with the range left at the first callback that matches
MatchingFirst(cmd) ==
    LET M == {i \in 1..Len(callbacks) : callbacks[i] = cmd}
    IN  {i \in M : \A j \in M : i <= j}

\* receive's range over the callbacks: the ones the test cb.cmd == msg.cmd selects
Matching(cmd) == {i \in 1..Len(callbacks) : callbacks[i] = cmd}

\* Accepts without the comparison of the checksums
AcceptsUnchecked(r) ==
    /\ ~r.err
    /\ r.n = packetSize
    /\ r.buf[1] = sync

\* serialReaderThread's tests of a read: no error and a full packet, the sync byte,
\* the checksum of the first 62 bytes against the last two read little-endian
Accepts(r) ==
    /\ ~r.err
    /\ r.n = packetSize
    /\ r.buf[1] = sync
    /\ Checksum(SubSeq(r.buf, 1, packetSize - 2))
            = r.buf[packetSize - 1] + 256 * r.buf[packetSize]

\* the end of the slice rxBuf[idxPayload : idxPayload+payloadLen], a uint8 sum
PayloadEnd(buf) == (idxPayload + buf[4]) % 256

\* the message serialReaderThread sends for the frame in buf
FrameMessage(buf) ==
    [cmd |-> buf[2], err |-> buf[3], payload |-> SubSeq(buf, idxPayload + 1, PayloadEnd(buf)),
     req |-> 0, at |-> 0]

\* serialReaderThread: one port.Read and what the loop makes of it: a read it does
\* not accept is dropped and the loop reads again; the slice of an accepted frame
\* panics when its end lies before its start or beyond the buffer
SerialRead ==
    /\ ~Crashed
    /\ rdpc = "read"
    /\ port = "open"
    /\ left.reads > 0
    /\ left' = [left EXCEPT !.reads = @ - 1]
    /\ \E r \in left.wire :
        /\ rxBuf' = r
        /\ IF ~Accepts(r) THEN UNCHANGED reader
           ELSE IF PayloadEnd(r.buf) < idxPayload \/ PayloadEnd(r.buf) > packetSize
           THEN rdpc' = "panic" /\ UNCHANGED rdmsg
           ELSE rdpc' = "send" /\ rdmsg' = [FrameMessage(r.buf) EXCEPT !.at = ReadAt]
    /\ UNCHANGED <<link, nWritten, unanswered, dispatcher, rxChan, call, ret, router, reg, hits>>

HasCallback(cmd) == \E i \in 1..Len(callbacks) : callbacks[i] = cmd

\* the invocation counts after the callbacks selected for cmd have run
Invoked(cmd) == [i \in 1..Len(hits) |-> IF i \in Matching(cmd) THEN hits[i] + 1 ELSE hits[i]]

\* RegisterCallback(cmd, cbFunc): ErrParam for a nil function; otherwise the send on
\* regCallbackChannel, taken by receive in its select, and the append
RegisterCallback ==
    /\ ~Crashed
    /\ left.regs > 0
    /\ left' = [left EXCEPT !.regs = @ - 1]
    /\ \E cmd \in RegCmds, isNil \in BOOLEAN :
        IF isNil
        THEN UNCHANGED <<callbacks, hits>>
        ELSE /\ dpc = "select"
             /\ callbacks' = Append(callbacks, cmd)
             /\ hits' = Append(hits, 0)
    /\ UNCHANGED <<port, connected, nWritten, unanswered, reader, dispatcher, rxChan, call, ret,
                   router, reg, rxBuf>>

\* receive, case msg := <-rxChannel: the rendezvous with the read loop, and the
\* range over the callbacks.  The callback Open registers for CmdRx, the first of
\* them, sends on the router's channel and may park there; the others return at once.
ReceiveMsg ==
    /\ ~Crashed
    /\ dpc = "select"
    /\ rdpc = "send"
    /\ rdpc' = "read"
    /\ rdmsg' = NoMsg
    /\ IF ~HasCallback(rdmsg.cmd)
       THEN /\ dpc' = "sendAns"
            /\ dmsg' = rdmsg
            /\ UNCHANGED hits
       ELSE IF rdmsg.cmd = CmdRx
       THEN /\ dpc' = "callback"
            /\ dmsg' = rdmsg
            /\ UNCHANGED hits
       ELSE /\ dpc' = "select"
            /\ dmsg' = NoMsg
            /\ hits' = Invoked(rdmsg.cmd)
    /\ UNCHANGED <<link, nWritten, unanswered, left, rxChan, call, ret, router>>
    /\ UNCHANGED <<reg, rxBuf>>

\* the CmdRx handler: hands the message to the router's channel; the range over the
\* callbacks then ends
RxCallback ==
    /\ ~Crashed
    /\ dpc = "callback"
    /\ Len(rxChan) < RxChannelCap
    /\ rxChan' = Append(rxChan, dmsg)
    /\ hits' = Invoked(dmsg.cmd)
    /\ dpc' = "select"
    /\ dmsg' = NoMsg
    /\ UNCHANGED <<link, nWritten, unanswered, left, reader, call, ret, router>>
    /\ UNCHANGED <<reg, rxBuf>>

\* ------------------------------------------------------------------ router
\* AddListenerResult without the test of the channel
AddListenerResultUnchecked(ls, f, isNil) ==
    [listeners |-> Append(ls, f), err |-> "nil"]

\* esbbridge.AddListener(sourceAddr, cmd, c) on the registry ls: the registry after the
\* call and the error returned; f holds the two filters, isNil says c is nil
AddListenerResult(ls, f, isNil) ==
    IF isNil THEN [listeners |-> ls, err |-> "InvalidParameter"]
    ELSE [listeners |-> Append(ls, f), err |-> "nil"]

\* esbbridge.AddListener called directly, with a channel of the caller's or with nil
AddListener ==
    /\ ~Crashed
    /\ left.adds > 0
    /\ left' = [left EXCEPT !.adds = @ - 1]
    /\ \E f \in Filters, isNil \in BOOLEAN :
        LET r == AddListenerResult(listeners, f, isNil)
        IN  /\ listeners' = r.listeners
            /\ sinks' = IF Len(r.listeners) > Len(listeners) THEN Append(sinks, <<>>) ELSE sinks
            /\ reg' = [sourceAddr |-> f.sourceAddr, cmd |-> f.cmd, isNil |-> isNil,
                       err |-> r.err]
    /\ UNCHANGED <<link, nWritten, unanswered, reader, dispatcher, rxChan, call, ret, rtpc,
                   rtmsg, rtidx, rtn, fan, lst, hits, rxBuf>>

\* ListenerMatches with the two filters joined by "or"
ListenerMatchesEither(l, m) ==
    \/ (l.cmd = CmdWildcard \/ l.cmd = m.cmd)
    \/ (l.sourceAddr = m.address \/ l.sourceAddr = AddrZero)

\* the filter of rxCallbackThread's range over the listeners.  The range reads
\* esbbridge.listeners once, unsynchronised with AddListener's append: it covers the
\* listeners registered before it started (rtn of them).
ListenerMatches(l, m) ==
    /\ (l.cmd = CmdWildcard \/ l.cmd = m.cmd)
    /\ (l.sourceAddr = m.address \/ l.sourceAddr = AddrZero)

\* the first matching listener at or after index from, among the first n; 0 if none
NextMatch(m, from, n) ==
    LET S == {i \in from..n : ListenerMatches(listeners[i], m)}
    IN  IF S = {} THEN 0 ELSE CHOOSE i \in S : \A j \in S : i <= j

\* the envelope in a CmdRx message's payload
Decode(payload) ==
    [address |-> SubSeq(payload, 1, AddressSize), cmd |-> payload[AddressSize + 1],
     payload |-> SubSeq(payload, AddressSize + 2, Len(payload))]

\* Malformed that lets every payload through
MalformedNever(p) == FALSE

\* rxCallbackThread's test of the payload: too short for an address and a command
Malformed(p) == Len(p) < MinEnvelopeLen

\* rxCallbackThread: usbMsg := <-ch, the length check (the goroutine returns on a
\* short payload), the envelope (indexing the command byte of a payload that lacks
\* it panics), and the range up to the first send
RouterRecv ==
    /\ ~Crashed
    /\ rtpc = "recv"
    /\ rxChan # <<>>
    /\ rxChan' = Tail(rxChan)
    /\ LET p == Head(rxChan).payload
       IN  IF Malformed(p)
           THEN /\ rtpc' = "dead"
                /\ UNCHANGED <<rtmsg, rtidx, rtn, fan>>
           ELSE IF Len(p) <= AddressSize
           THEN /\ rtpc' = "panic"
                /\ UNCHANGED <<rtmsg, rtidx, rtn, fan>>
           ELSE LET m == Decode(p)
                    n == Len(listeners)
                    k == NextMatch(m, 1, n)
                IN  /\ rtmsg' = m
                    /\ rtn' = n
                    /\ rtidx' = k
                    /\ rtpc' = IF k = 0 THEN "recv" ELSE "send"
                    /\ fan' = [msg |-> m, n |-> n, got |-> {}, done |-> k = 0]
    /\ UNCHANGED <<link, nWritten, unanswered, left, reader, dispatcher, call, ret, listeners, sinks, lst>>
    /\ UNCHANGED <<reg, hits, rxBuf>>

\* rxCallbackThread: l.channel <- message, and the range up to the next send
RouterSend ==
    /\ ~Crashed
    /\ rtpc = "send"
    /\ Len(sinks[rtidx]) < SinkCap
    /\ sinks' = [sinks EXCEPT ![rtidx] = Append(@, rtmsg)]
    /\ LET k == NextMatch(rtmsg, rtidx + 1, rtn)
       IN  /\ rtidx' = k
           /\ rtpc' = IF k = 0 THEN "recv" ELSE "send"
           /\ fan' = [fan EXCEPT !.got = @ \cup {rtidx}, !.done = k = 0]
    /\ UNCHANGED <<link, nWritten, unanswered, left, reader, dispatcher, rxChan, call, ret, listeners,
                   rtmsg, rtn, lst>>
    /\ UNCHANGED <<reg, hits, rxBuf>>

\* server Listen: the sink, AddListener, and the loop is entered; clients that have
\* not subscribed are interchangeable, the first of them subscribes next
Listen(l) ==
    /\ ~Crashed
    /\ lst[l].pc = "idle"
    /\ left.listens
    /\ \A k \in Clients : k < l => lst[k].pc # "idle"
    /\ \E f \in Filters :
        /\ listeners' = AddListenerResult(listeners, f, FALSE).listeners
        /\ sinks' = Append(sinks, <<>>)
        /\ lst' = [lst EXCEPT ![l] = [IdleListen EXCEPT !.pc = "loop",
                                                          !.idx = Len(listeners) + 1]]
    /\ UNCHANGED <<link, nWritten, unanswered, left, reader, dispatcher, rxChan, call, ret,
                   rtpc, rtmsg, rtidx,
                   rtn, fan>>
    /\ UNCHANGED <<reg, hits, rxBuf>>

\* server Listen: msg := <-lc and messageStream.Send; the handler returns the error
\* of a failed Send (the client is gone or has cancelled), and nil after ListenCycles
\* messages
ListenRecv(l) ==
    /\ ~Crashed
    /\ lst[l].pc = "loop"
    /\ sinks[lst[l].idx] # <<>>
    /\ sinks' = [sinks EXCEPT ![lst[l].idx] = Tail(@)]
    /\ \E ok \in BOOLEAN :
        lst' = [lst EXCEPT ![l] =
                    IF ~ok THEN [@ EXCEPT !.i = @ + 1, !.pc = "done", !.err = "SendError"]
                    ELSE IF lst[l].i + 1 < ListenCycles THEN [@ EXCEPT !.i = @ + 1]
                    ELSE [@ EXCEPT !.i = @ + 1, !.pc = "done", !.err = "nil"]]
    /\ UNCHANGED <<link, nWritten, unanswered, left, reader, dispatcher, rxChan, call, ret, listeners,
                   rtpc, rtmsg, rtidx, rtn, fan>>
    /\ UNCHANGED <<reg, hits, rxBuf>>

\* the bridge server: the gateway's and the engine's calls, the device, the router
\* and the Listen handlers.  What a program does with the packages directly
\* (AddListener, RegisterCallback) and the read loop on raw bytes have the
\* specifications that follow.
Next ==
    \/ Open
    \/ Close
    \/ \E c \in Callers : GetFwVersion(c)
    \/ \E c \in Callers : Transfer(c)
    \/ \E c \in Callers : UsbTransfer(c)
    \/ \E c \in Callers : AnswerRecv(c)
    \/ \E c \in Callers : Timeout(c)
    \/ ReaderRead
    \/ ReceiveMsg
    \/ RxCallback
    \/ RouterRecv
    \/ RouterSend
    \/ \E l \in Clients : Listen(l)
    \/ \E l \in Clients : ListenRecv(l)

Spec == Init /\ [][Next]_vars

\* the calls alone, against a device that may answer, stay silent or send strays;
\* the timer of a waiting Transfer fires
NextCalls ==
    \/ Open
    \/ Close
    \/ \E c \in Callers : GetFwVersion(c)
    \/ \E c \in Callers : Transfer(c)
    \/ \E c \in Callers : UsbTransfer(c)
    \/ \E c \in Callers : AnswerRecv(c)
    \/ \E c \in Callers : Timeout(c)
    \/ ReaderRead
    \/ ReceiveMsg

SpecTimeout ==
    InitWith(TimeoutWork) /\ [][NextCalls]_vars /\ \A c \in Callers : WF_vars(Timeout(c))

\* the same calls and device, no timer assumed
SpecCalls == InitWith(CallsWork) /\ [][NextCalls]_vars

\* calls and timeouts against a device that only answers requests, with the history
\* of when each frame was received
SpecStale == InitWith(StaleWork) /\ [][NextCalls]_vars

\* the notifications, the router and the Listen handlers alone
NextListen ==
    \/ Open
    \/ Close
    \/ ReaderRead
    \/ ReceiveMsg
    \/ RxCallback
    \/ RouterRecv
    \/ RouterSend
    \/ \E l \in Clients : Listen(l)
    \/ \E l \in Clients : ListenRecv(l)

SpecListen == InitWith(ListenWork) /\ [][NextListen]_vars

\* the calls against a device that answers every request before its timer fires and
\* sends nothing else, on a link that stays open
NextHonest ==
    \/ Open
    \/ \E c \in Callers : GetFwVersion(c)
    \/ \E c \in Callers : Transfer(c)
    \/ \E c \in Callers : UsbTransfer(c)
    \/ \E c \in Callers : AnswerRecv(c)
    \/ ReaderRead
    \/ ReceiveMsg

SpecHonest == InitWith(HonestWork) /\ [][NextHonest]_vars

\* the engine called directly with payloads at the limits, the device answering or not
NextSize ==
    \/ Open
    \/ Close
    \/ \E c \in Callers : UsbTransfer(c)
    \/ \E c \in Callers : AnswerRecv(c)
    \/ \E c \in Callers : Timeout(c)
    \/ ReaderRead
    \/ ReceiveMsg

SpecSize == InitWith(SizeWork) /\ [][NextSize]_vars

\* callbacks registered while frames arrive and a call waits for its reply
NextDispatch ==
    \/ Open
    \/ RegisterCallback
    \/ \E c \in Callers : GetFwVersion(c)
    \/ \E c \in Callers : AnswerRecv(c)
    \/ \E c \in Callers : Timeout(c)
    \/ ReaderRead
    \/ ReceiveMsg
    \/ RxCallback

SpecDispatch == InitWith(DispatchWork) /\ [][NextDispatch]_vars

\* the read loop on raw reads, the dispatcher taking what it accepts, and a caller
NextFrames ==
    \/ Open
    \/ \E c \in Callers : GetFwVersion(c)
    \/ \E c \in Callers : AnswerRecv(c)
    \/ \E c \in Callers : Timeout(c)
    \/ SerialRead
    \/ ReceiveMsg
    \/ RxCallback

SpecFrames == InitWith(FramesWork) /\ [][NextFrames]_vars

\* the read loop fed with the frames of the send path
SpecLoop == InitWith(LoopWork) /\ [][NextFrames]_vars

\* a program that subscribes with AddListener itself and does not read its channels
NextSubscribe ==
    \/ Open
    \/ AddListener
    \/ ReaderRead
    \/ ReceiveMsg
    \/ RxCallback
    \/ RouterRecv
    \/ RouterSend

SpecSubscribe == InitWith(SubscribeWork) /\ [][NextSubscribe]_vars

\* ------------------------------------------------------------------ claims
GatewayOps == {"Transfer", "GetFwVersion"}

SizeErrors == {"PayloadEmpty", "PayloadTooLong", "PayloadTooShort"}

\* C1: at most one pending transaction exists in every reachable state: no two
\* Transfer calls are at once between "request written" and "reply or timeout".
C1_AtMostOnePending == Cardinality(Pending) <= 1

\* C2: with two callers in Transfer at once under different commands, against a
\* device that answers each request in time, a Transfer completes successfully with
\* the reply to its own request, never with the other caller's reply or a
\* CommandMismatch caused by it.
C2_OwnReply ==
    (ret.req # 0 /\ \E c \in Pending : call[c].cmd # ret.cmd)
        => (ret.ans.err = "nil" /\ ret.got.req = ret.req)

\* C3: a Transfer invoked while another is in flight waits until that one has
\* completed: no request frame is written while a transaction is pending.
C3_SecondWaits ==
    [][\A c \in Callers :
          (call[c].pc = "idle" /\ call'[c].pc = "wait") => Pending = {}]_vars

\* C4: a Transfer whose request was written and that gets no reply returns Timeout
\* (it does not wait forever), and once it has returned it is no longer pending and
\* its caller can issue the next Transfer.
C4_TimeoutReleases ==
    /\ \A c \in Callers : (call[c].pc = "wait") ~> (call[c].pc = "idle")
    /\ [][\A c \in Callers :
            (call[c].pc = "wait" /\ ret'.req = call[c].req /\ dpc' = dpc)
                => /\ ret'.ans.err = "ErrTimeout"
                   /\ ret'.got = NoMsg
                   /\ c \notin Pending'
                   /\ call'[c].pc = "idle"]_vars

C4_Witness == ret.ans.err = "ErrTimeout" /\ ret.req # 0 /\ Pending = {}

\* C5: a reply whose command differs from the request's makes the Transfer fail with
\* CommandMismatch; a Transfer that takes a reply with its own command returns that
\* reply's status and payload, also when it was started after a mismatch.
C5_MismatchThenClean ==
    (ret.op # "none" /\ ret.got # NoMsg) =>
        IF ret.got.cmd # ret.cmd
        THEN ret.ans = [status |-> 0, payload |-> <<>>, err |-> "ErrCmdMismatch"]
        ELSE ret.ans = [status |-> ret.got.err, payload |-> ret.got.payload, err |-> "nil"]

C5_Witness ==
    /\ ret.prev
    /\ ret.got # NoMsg
    /\ ret.got.cmd = ret.cmd
    /\ ret.ans = [status |-> ret.got.err, payload |-> ret.got.payload, err |-> "nil"]

\* C6: after Close on an open connection, every Transfer or GetFwVersion of the
\* gateway fails with the not-connected error.
C6_ClosedRefuses ==
    (ret.op \in GatewayOps /\ ret.st = "closed") => ret.res.err = "NotConnected"

\* C7: before any successful Open, the gateway's Transfer and GetFwVersion return
\* the not-connected error for every argument, and no frame is written to the link.
C7_NotOpenRefuses ==
    /\ port = "nil" => nWritten = 0
    /\ (ret.op \in GatewayOps /\ ret.st = "nil")
            => (ret.res.err = "NotConnected" /\ ret.req = 0 /\ ret.ans = NoAns)

C7_Witness == ret.op = "GetFwVersion" /\ ret.st = "nil" /\ ret.res.err = "NotConnected"

\* C8: on an open connection, a gateway Transfer with a nil payload, an empty one or
\* one longer than 32 bytes returns a size error and writes no frame; only payloads
\* of 1..32 bytes reach the transaction engine.
C8_PayloadBounds ==
    LET Bad(p) == p.isNil \/ Len(p.bytes) = 0 \/ Len(p.bytes) > 32
    IN  /\ (ret.op = "Transfer" /\ ret.st = "open" /\ Bad(ret.arg))
            => (ret.res.err \in SizeErrors /\ ret.req = 0 /\ ret.ans = NoAns)
        /\ (ret.op = "Transfer" /\ ret.ans # NoAns) => ~Bad(ret.arg)
        /\ \A c \in Callers : call[c].op = "Transfer" => ~Bad(call[c].arg)

C8_Witness ==
    /\ ret.op = "Transfer"
    /\ ret.st = "open"
    /\ Len(ret.arg.bytes) = 33
    /\ ret.res.err \in SizeErrors
    /\ ret.req = 0

\* C9: an envelope is delivered to a listener's sink if and only if the listener's
\* address filter is all-zero or equals the envelope's source address and its
\* command filter is 0xFF or equals the envelope's command; an envelope matching
\* several listeners is delivered to each of them.
C9_ListenerMatching ==
    LET Should(i) ==
            /\ (listeners[i].sourceAddr = <<0, 0, 0, 0, 0>>
                    \/ listeners[i].sourceAddr = fan.msg.address)
            /\ (listeners[i].cmd = 255 \/ listeners[i].cmd = fan.msg.cmd)
        matching == {i \in 1..fan.n : Should(i)}
    IN  /\ fan.got \subseteq matching
        /\ fan.done => fan.got = matching

C9_Witness == fan.done /\ fan.n = 2 /\ fan.got = {1, 2}

\* C10: a sink that is full and never drained does not stall the router: the router
\* is never parked on the full sink of a Listen handler that has returned while
\* another matching listener still waits for the same envelope.
C10_RouterNotStuck ==
    ~ /\ rtpc = "send"
      /\ Len(sinks[rtidx]) = SinkCap
      /\ \E l \in Clients : lst[l].idx = rtidx /\ lst[l].pc = "done"
      /\ NextMatch(rtmsg, rtidx + 1, rtn) # 0

\* C11: once a Listen handler has returned (its client cancelled or disconnected, or
\* the call ended), its listener is out of the router's registry: no envelope the
\* router takes from its channel afterwards is matched against that listener, so no
\* delivery to its sink is attempted.
C11_DeadListenerDropped ==
    [][\A l \in Clients :
          (lst[l].pc = "done" /\ rtpc = "recv" /\ rxChan' # rxChan /\ rtpc' # "dead")
              => ~ /\ lst[l].idx <= rtn'
                   /\ ListenerMatches(listeners[lst[l].idx], rtmsg')]_vars

\* C12: the stream of a Listen client that has neither cancelled nor disconnected
\* does not end on its own: a Listen handler returns only on a failed Send.
C12_StreamStaysOpen ==
    \A l \in Clients : lst[l].pc = "done" => lst[l].err = "SendError"

\* C13: AddListener with a nil channel returns the invalid-parameter error and leaves
\* the registry as it was; with a channel it returns no error and appends exactly one
\* listener carrying the given address and command filters, the listeners already
\* registered staying as they were.
C13_AddListener ==
    [][left'.adds < left.adds =>
          IF reg'.isNil
          THEN reg'.err = "InvalidParameter" /\ listeners' = listeners
          ELSE /\ reg'.err = "nil"
               /\ Len(listeners') = Len(listeners) + 1
               /\ SubSeq(listeners', 1, Len(listeners)) = listeners
               /\ listeners'[Len(listeners')] = [sourceAddr |-> reg'.sourceAddr,
                                                 cmd |-> reg'.cmd]]_vars

C13_Witness ==
    /\ reg.isNil
    /\ reg.err = "InvalidParameter"
    /\ Len(listeners) = 1
    /\ left.adds = 0

\* C14: usbprotocol.Transfer with a payload longer than 58 bytes returns ErrSize with
\* no frame written and no pending transaction created; a payload of 0..58 bytes, nil
\* included, is never refused with ErrSize, and only such payloads become pending.
C14_SizeCheck ==
    [][left'.calls < left.calls =>
          LET started == {c \in Callers : call[c].pc = "idle" /\ call'[c].pc = "wait"}
          IN  /\ \A c \in started : Len(call'[c].arg.bytes) <= 58
              /\ started = {} =>
                    IF Len(ret'.arg.bytes) > 58
                    THEN /\ ret'.ans = [status |-> 0, payload |-> <<>>, err |-> "ErrSize"]
                         /\ ret'.got = NoMsg
                         /\ nWritten' = nWritten
                         /\ Pending' = Pending
                    ELSE ret'.ans.err # "ErrSize"]_vars

C14_Witness ==
    /\ ret.op = "UsbTransfer"
    /\ ret.st = "open"
    /\ Len(ret.arg.bytes) = 59
    /\ ret.ans.err = "ErrSize"
    /\ ret.req = 0
    /\ \E c \in Callers : call[c].pc = "wait" /\ Len(call[c].arg.bytes) = 58

EngineErrors == {"ErrTimeout", "ErrCmdMismatch", "ErrSerial", "WriteError"}

\* C15: a gateway call whose reply carries a nonzero status returns a device error
\* with that status and no payload; when the engine returns an error (timeout,
\* command mismatch, serial or write error) the gateway returns that error; Transfer
\* returns the reply's payload only with status zero and no engine error.
C15_GatewayResult ==
    (ret.op \in GatewayOps /\ ret.ans # NoAns) =>
        /\ (ret.got.cmd = ret.cmd /\ ret.got.err # 0)
                => ret.res = [val |-> <<>>, err |-> "DeviceError", code |-> ret.got.err]
        /\ ret.ans.err # "nil"
                => /\ ret.ans.err \in EngineErrors
                   /\ ret.res = [val |-> <<>>, err |-> ret.ans.err, code |-> 0]
        /\ (ret.op = "Transfer" /\ ret.res.err = "nil")
                => /\ ret.got.cmd = ret.cmd /\ ret.got.err = 0
                   /\ ret.res.val = ret.got.payload
        /\ (ret.op = "Transfer" /\ ret.got.cmd = ret.cmd /\ ret.got.err = 0)
                => ret.res = [val |-> ret.got.payload, err |-> "nil", code |-> 0]

C15_Witness ==
    /\ ret.op = "Transfer"
    /\ ret.got.cmd = UsbCmdTransfer
    /\ ret.got.err = 1
    /\ ret.res = [val |-> <<>>, err |-> "DeviceError", code |-> 1]

\* C16: after Close the read loop and the dispatcher started by Open are stopped:
\* the dispatcher takes no frame from the read loop once the port is closed.
C16_ClosedStopsTasks ==
    [][port = "closed" => ~(dpc = "select" /\ dpc' # "select")]_vars

\* C17: a frame that matches no callback and arrives while no Transfer is pending is
\* dropped: the dispatcher is back in its select, holding nothing, ready for the next
\* frame or registration.
C17_UnsolicitedDropped ==
    [][(dpc = "select" /\ rdpc = "send" /\ rdpc' = "read"
            /\ Pending = {} /\ \A i \in 1..Len(callbacks) : callbacks[i] # rdmsg.cmd)
          => (dpc' = "select" /\ dmsg' = NoMsg)]_vars

\* C18: the dispatcher invokes, for the frame it takes, every callback registered
\* for the frame's command, and puts the frame on the answer path if and only if
\* there is none; a frame a caller takes as its reply has invoked no callback.
C18_CallbackOrAnswer ==
    /\ [][(dpc = "select" /\ rdpc = "send" /\ rdpc' = "read") =>
            LET M == {i \in 1..Len(callbacks) : callbacks[i] = rdmsg.cmd}
            IN  IF M = {}
                THEN dpc' = "sendAns" /\ dmsg' = rdmsg /\ hits' = hits
                ELSE /\ dpc' # "sendAns"
                     /\ ret' = ret
                     /\ dpc' = "select" =>
                            hits' = [i \in 1..Len(hits) |-> IF i \in M THEN hits[i] + 1
                                                                       ELSE hits[i]]]_vars
    /\ [][(dpc = "callback" /\ dpc' = "select") =>
            /\ ret' = ret
            /\ hits' = [i \in 1..Len(hits) |-> IF callbacks[i] = dmsg.cmd THEN hits[i] + 1
                                                                          ELSE hits[i]]]_vars
    /\ [][(\E c \in Callers : call[c].pc = "wait" /\ call'[c].pc = "idle"
                                    /\ ret'.got # NoMsg) =>
            /\ dpc = "sendAns"
            /\ ret'.got = dmsg
            /\ hits' = hits
            /\ \A i \in 1..Len(callbacks) : callbacks[i] # dmsg.cmd]_vars

C18_Witness ==
    /\ callbacks = <<CmdRx, CmdIrq, CmdIrq>>
    /\ hits = <<0, 1, 1>>
    /\ dpc = "select"

\* C19: the read loop hands a frame to the dispatcher only for a read of exactly 64
\* bytes without error whose first byte is the sync value 0x69 and whose last two
\* bytes, little-endian, are the CRC of bytes 0..61; every other read changes nothing
\* but the buffer, and the loop reads on; what the dispatcher takes is such a frame.
C19_OnlyValidFrames ==
    /\ [][left'.reads < left.reads =>
            LET r == rxBuf'
                valid == /\ ~r.err
                         /\ r.n = 64
                         /\ r.buf[1] = 105
                         /\ r.buf[63] + 256 * r.buf[64] = Checksum(SubSeq(r.buf, 1, 62))
            IN  IF valid
                THEN rdpc' = "send" => /\ rdmsg'.cmd = r.buf[2]
                                       /\ rdmsg'.err = r.buf[3]
                                       /\ rdmsg'.payload = SubSeq(r.buf, 5, 4 + r.buf[4])
                ELSE /\ rdpc' = "read"
                     /\ rdmsg' = NoMsg
                     /\ UNCHANGED <<link, dispatcher, rxChan, call, ret, router, hits>>]_vars
    /\ [][(dpc = "select" /\ dpc' # "select") =>
            /\ rdpc = "send"
            /\ dmsg' = rdmsg
            /\ dmsg'.cmd = rxBuf.buf[2]
            /\ rxBuf.buf[1] = 105
            /\ rxBuf.n = 64]_vars

C19_Witness ==
    /\ rxBuf.n = 64
    /\ ~rxBuf.err
    /\ rxBuf.buf[1] = 105
    /\ rxBuf.buf[2] = 17
    /\ left.reads = 0
    /\ rdpc = "read"
    /\ dpc = "sendAns"
    /\ dmsg.cmd = 16

\* C20: a receive notification whose payload is shorter than 6 bytes is delivered to
\* no listener and raises nothing: when the router takes it, no sink and no call
\* changes, no fan-out starts and the router does not panic.
C20_MalformedDropped ==
    [][(rtpc = "recv" /\ rxChan # <<>> /\ rxChan' = Tail(rxChan)
            /\ Len(Head(rxChan).payload) < 6)
          => /\ sinks' = sinks
             /\ fan' = fan
             /\ rtpc' \notin {"send", "panic"}
             /\ call' = call
             /\ ret' = ret]_vars

C20_Witness ==
    /\ rtpc = "dead"
    /\ \E i \in 1..Len(listeners) :
            /\ listeners[i] = [sourceAddr |-> AddrZero, cmd |-> CmdWildcard]
            /\ sinks[i] = <<>>
    /\ left.envs = 1

\* C21: a malformed receive notification does not stop the router: the router is
\* never ended while a well-formed notification that a registered listener matches
\* waits in its channel.
C21_RouterSurvivesMalformed ==
    ~ /\ rtpc = "dead"
      /\ rxChan # <<>>
      /\ ~Malformed(Head(rxChan).payload)
      /\ \E i \in 1..Len(listeners) : ListenerMatches(listeners[i], Decode(Head(rxChan).payload))

\* C22: the reply a Transfer returns is a frame the read loop received after that
\* Transfer's request frame was written: a frame received before it, such as the
\* late reply to an earlier Transfer that timed out, is never returned as the reply,
\* even with the same command identifier.
C22_ReplyAfterRequest ==
    (ret.req > 0 /\ ret.ans.err = "nil") => ret.got.at >= ret.req

\* C23: what the read loop publishes has a payload of at most 58 bytes, taken from
\* the payload field of the frame (bytes 4..61), never from the checksum or from
\* beyond the frame, and no checksum-valid frame, whatever its length byte, ends the
\* read loop.
C23_PublishedWithinFrame ==
    /\ rdpc # "panic"
    /\ (rdpc = "send" /\ rxBuf # NoRead) =>
            /\ Len(rdmsg.payload) <= MaxPayloadLen
            /\ rdmsg.payload = SubSeq(rxBuf.buf, 5, 4 + Len(rdmsg.payload))

\* C24: for every command and every payload of 0..58 bytes (none at all included),
\* the frame Transfer builds, read back by the read loop, is accepted and published
\* as a message with the same command, the same payload length and the same payload.
C24_Loopback ==
    [][left'.reads < left.reads =>
        \A cmd \in LoopCmds, p \in LoopPayloads :
            rxBuf'.buf = TxBuf(cmd, p) =>
                /\ rdpc' = "send"
                /\ rdmsg'.cmd = cmd
                /\ Len(rdmsg'.payload) = Len(p.bytes)
                /\ rdmsg'.payload = p.bytes]_vars

C24_Witness ==
    /\ rdpc = "send"
    /\ rdmsg.cmd = CmdRx
    /\ rdmsg.payload = [i \in 1..MaxPayloadLen |-> i]
    /\ rxBuf.buf = TxBuf(CmdRx, Bytes([i \in 1..MaxPayloadLen |-> i]))

====
